---- MODULE Spec2Model ----
(***************************************************************************)
(* A model of the annotation client of rust-hypothesis                     *)
(* (src/src/annotations.rs, src/src/errors.rs): the value types, the       *)
(* derive_builder builders, the serde encoding of requests, the eight      *)
(* resource operations and the classification of their responses.          *)
(*                                                                         *)
(* Text is a sequence of chunks: a chunk is a run of plain characters, or  *)
(* the single character DQ (double quote) or BS (backslash).               *)
(***************************************************************************)
EXTENDS Integers, Sequences, FiniteSets, TLC

VARIABLES
    pc,         \* "idle" | "awaiting" (the request is with the HTTP client) | "returned"
    op,         \* the operation in progress, "none" when idle
    input,      \* the arguments of the operation in progress
    request,    \* the request handed to the HTTP client (NoRequest when idle)
    http_calls, \* requests handed to the HTTP client by the invocation in progress
    body,       \* the response body the HTTP client returned (NoBody before)
    result,     \* what the operation returned to its caller (NoResult before)
    builder,    \* the builder the caller is filling: its kind and its Option fields
    nset,       \* setter calls made on the builder so far
    built,      \* what the last build() returned (NoResult before)
    last,       \* per field, the argument of the last setter call made for it
    builds      \* what the build() calls made since the last setter call returned

opvars == <<pc, op, input, request, http_calls, body, result>>
buildvars == <<builder, nset, built, last, builds>>
vars == <<pc, op, input, request, http_calls, body, result,
          builder, nset, built, last, builds>>

(***************************************************************************)
(* Bounds of the model.                                                    *)
(***************************************************************************)
\* Fields of an InputAnnotation or SearchQuery argument that differ from the default.
MaxFieldsSet == 2
\* Setter calls made on one builder.
MaxSetterCalls == 3
\* build() calls made on one builder between two setter calls.
MaxBuildCalls == 2

(***************************************************************************)
(* Text, Option and JSON values.                                           *)
(***************************************************************************)
DQ == "\""
BS == "\\"

None == <<>>
Some(v) == <<v>>
IsSome(o) == Len(o) = 1
Unwrap(o) == o[1]

JNull == [t |-> "Null", v |-> <<>>]
JBool(b) == [t |-> "Bool", v |-> b]
JNumber(n) == [t |-> "Number", v |-> n]
JString(s) == [t |-> "String", v |-> s]
JArray(a) == [t |-> "Array", v |-> a]
\* A JSON object is the sequence of its members <<key, value>>, in the order written.
JObject(members) == [t |-> "Object", v |-> members]

Keys(members) == {members[i][1] : i \in 1..Len(members)}
HasKey(j, k) == j.t = "Object" /\ k \in Keys(j.v)
\* The value of the last member named k (serde_json's maps keep the last duplicate).
Get(members, k) ==
    LET at == {i \in 1..Len(members) : members[i][1] = k}
    IN  members[CHOOSE i \in at : \A m \in at : m <= i][2]

RECURSIVE Concat(_)
Concat(ss) == IF ss = <<>> THEN <<>> ELSE Head(ss) \o Concat(Tail(ss))

RECURSIVE JoinComma(_)
JoinComma(ss) ==
    IF ss = <<>> THEN <<>>
    ELSE IF Len(ss) = 1 THEN ss[1]
    ELSE ss[1] \o <<",">> \o JoinComma(Tail(ss))

Digit(d) == <<"0", "1", "2", "3", "4", "5", "6", "7", "8", "9">>[d + 1]

RECURSIVE ToDecimal(_)
ToDecimal(n) ==
    IF n < 10 THEN <<Digit(n)>> ELSE ToDecimal(n \div 10) \o <<Digit(n % 10)>>

\* serde_json's escaping of one character inside a JSON string.
EscapeChar(c) ==
    IF c = DQ THEN <<BS, DQ>> ELSE IF c = BS THEN <<BS, BS>> ELSE <<c>>

\* The text of a JSON string: the escaped characters between two double quotes.
Quoted(s) == <<DQ>> \o Concat([i \in 1..Len(s) |-> EscapeChar(s[i])]) \o <<DQ>>

\* serde_json::Value::to_string: the compact JSON text of a value.
RECURSIVE ValueToString(_)
ValueToString(j) ==
    CASE j.t = "String" -> Quoted(j.v)
      [] j.t = "Number" -> ToDecimal(j.v)
      [] j.t = "Bool" -> IF j.v THEN <<"true">> ELSE <<"false">>
      [] j.t = "Null" -> <<"null">>
      [] j.t = "Array" ->
            <<"[">> \o JoinComma([i \in 1..Len(j.v) |-> ValueToString(j.v[i])]) \o <<"]">>
      [] OTHER ->
            <<"{">>
            \o JoinComma([i \in 1..Len(j.v) |->
                    Quoted(<<j.v[i][1]>>) \o <<":">> \o ValueToString(j.v[i][2])])
            \o <<"}">>

\* str::replace('"', ""): every double quote of the text is removed.
ReplaceQuotes(text) == SelectSeq(text, LAMBDA c : c # DQ)

(***************************************************************************)
(* is_default: the predicate of every skip_serializing_if attribute.       *)
(***************************************************************************)
is_default(value, default) == value = default

(***************************************************************************)
(* Value types and their Default values.                                   *)
(***************************************************************************)
Target_default == [source |-> <<>>, selector |-> <<>>]

Document_default == [title |-> <<>>, dc |-> None, highwire |-> None, link |-> <<>>]

InputAnnotation_default ==
    [uri |-> <<>>, text |-> <<>>, tags |-> None, document |-> None,
     group |-> <<>>, target |-> Target_default, references |-> <<>>]

Sort_default == "Updated"
Order_default == "Desc"

\* #[derive(Default)] of SearchQuery: every field's own Default (limit: u8 is 0).
SearchQuery_default ==
    [limit |-> 0, sort |-> Sort_default, search_after |-> <<>>, offset |-> 0,
     order |-> Order_default, uri |-> <<>>, uri_parts |-> <<>>,
     wildcard_uri |-> <<>>, user |-> <<>>, group |-> <<>>, tag |-> <<>>,
     tags |-> <<>>, any |-> <<>>, quote |-> <<>>, references |-> <<>>,
     text |-> <<>>]

APIError_default == [status |-> <<>>, reason |-> <<>>]

Selector_new_quote(exact, prefix, suffix) ==
    [variant |-> "TextQuoteSelector", exact |-> exact, prefix |-> prefix, suffix |-> suffix]

(***************************************************************************)
(* #[derive(Serialize)]: the JSON value of each request type.  A struct is *)
(* written member by member in declaration order; a member whose field     *)
(* carries skip_serializing_if = "is_default" is left out when the field   *)
(* equals its default.                                                     *)
(***************************************************************************)
\* `names` gives each field's name on the wire, `encoded` the JSON value of each
\* field of `value`.
SerializeStruct(fields, skip, value, default, names, encoded) ==
    JObject(Concat([i \in 1..Len(fields) |->
        IF fields[i] \in skip /\ is_default(value[fields[i]], default[fields[i]])
        THEN <<>>
        ELSE << <<names[fields[i]], encoded[fields[i]]>> >>]))

Range(s) == {s[i] : i \in 1..Len(s)}

\* The wire names of a struct with no #[serde(rename)].
SameNames(fields) == [f \in Range(fields) |-> f]

Serialize_VecString(v) == JArray([i \in 1..Len(v) |-> JString(v[i])])

\* #[serde(tag = "type")]: the variant's name is written first, as the member "type".
Serialize_Selector(s) ==
    CASE s.variant = "TextQuoteSelector" ->
            JObject(<< <<"type", JString(<<"TextQuoteSelector">>)>>,
                       <<"exact", JString(s.exact)>>,
                       <<"prefix", JString(s.prefix)>>,
                       <<"suffix", JString(s.suffix)>> >>)
      [] s.variant = "TextPositionSelector" ->
            JObject(<< <<"type", JString(<<"TextPositionSelector">>)>>,
                       <<"start", JNumber(s.start)>>,
                       <<"end", JNumber(s.end)>> >>)
      [] OTHER ->
            JObject(<< <<"type", JString(<<"RangeSelector">>)>> >> \o s.bag)

Target_fields == <<"source", "selector">>
Target_skip == {"source", "selector"}
Target_enc(f, x) ==
    IF f = "source" THEN JString(x) ELSE JArray([i \in 1..Len(x) |-> Serialize_Selector(x[i])])
Serialize_Target(t) ==
    SerializeStruct(Target_fields, Target_skip, t, Target_default,
                    SameNames(Target_fields),
                    [f \in Range(Target_fields) |-> Target_enc(f, t[f])])

Dc_fields == <<"identifier">>
Dc_skip == {"identifier"}
Dc_default == [identifier |-> <<>>]
Dc_enc(f, x) == Serialize_VecString(x)
Serialize_Dc(d) == SerializeStruct(Dc_fields, Dc_skip, d, Dc_default,
                    SameNames(Dc_fields),
                    [f \in Range(Dc_fields) |-> Dc_enc(f, d[f])])

HighWire_fields == <<"doi", "pdf_url">>
HighWire_skip == {"doi", "pdf_url"}
HighWire_default == [doi |-> <<>>, pdf_url |-> <<>>]
HighWire_enc(f, x) == Serialize_VecString(x)
Serialize_HighWire(h) ==
    SerializeStruct(HighWire_fields, HighWire_skip, h, HighWire_default,
                    SameNames(HighWire_fields),
                    [f \in Range(HighWire_fields) |-> HighWire_enc(f, h[f])])

Link_fields == <<"href", "link_type">>
Link_skip == {"link_type"}
Link_default == [href |-> <<>>, link_type |-> <<>>]
Link_name(f) == IF f = "link_type" THEN "type" ELSE f
Link_enc(f, x) == JString(x)
Serialize_Link(l) ==
    SerializeStruct(Link_fields, Link_skip, l, Link_default,
                    [f \in Range(Link_fields) |-> Link_name(f)],
                    [f \in Range(Link_fields) |-> Link_enc(f, l[f])])

Document_fields == <<"title", "dc", "highwire", "link">>
Document_skip == {"title", "dc", "highwire", "link"}
Document_enc(f, x) ==
    CASE f = "title" -> Serialize_VecString(x)
      [] f = "dc" -> IF IsSome(x) THEN Serialize_Dc(Unwrap(x)) ELSE JNull
      [] f = "highwire" -> IF IsSome(x) THEN Serialize_HighWire(Unwrap(x)) ELSE JNull
      [] OTHER -> JArray([i \in 1..Len(x) |-> Serialize_Link(x[i])])
Serialize_Document(d) ==
    SerializeStruct(Document_fields, Document_skip, d, Document_default,
                    SameNames(Document_fields),
                    [f \in Range(Document_fields) |-> Document_enc(f, d[f])])

InputAnnotation_fields ==
    <<"uri", "text", "tags", "document", "group", "target", "references">>
\* A slip: the attribute forgotten on `group`, which is then always written.
InputAnnotation_skip_without_group ==
    {"uri", "text", "tags", "document", "target", "references"}
InputAnnotation_skip ==
    {"uri", "text", "tags", "document", "group", "target", "references"}
InputAnnotation_enc(f, x) ==
    CASE f \in {"uri", "text", "group"} -> JString(x)
      [] f = "tags" -> IF IsSome(x) THEN Serialize_VecString(Unwrap(x)) ELSE JNull
      [] f = "document" -> IF IsSome(x) THEN Serialize_Document(Unwrap(x)) ELSE JNull
      [] f = "target" -> Serialize_Target(x)
      [] OTHER -> Serialize_VecString(x)
\* A slip: an empty tag list taken for "no tags" and left out.
Serialize_InputAnnotation_empty_tags_skipped(a) ==
    LET b == [a EXCEPT !.tags = IF a.tags = Some(<<>>) THEN None ELSE a.tags]
    IN  SerializeStruct(InputAnnotation_fields, InputAnnotation_skip, b,
                        InputAnnotation_default, SameNames(InputAnnotation_fields),
                        [f \in Range(InputAnnotation_fields) |-> InputAnnotation_enc(f, b[f])])
Serialize_InputAnnotation(a) ==
    SerializeStruct(InputAnnotation_fields, InputAnnotation_skip, a,
                    InputAnnotation_default, SameNames(InputAnnotation_fields),
                    [f \in Range(InputAnnotation_fields) |-> InputAnnotation_enc(f, a[f])])

\* #[serde(rename_all = "lowercase")] of Sort and Order.
Serialize_Sort(s) ==
    CASE s = "Created" -> JString(<<"created">>)
      [] s = "Updated" -> JString(<<"updated">>)
      [] s = "Id" -> JString(<<"id">>)
      [] s = "Group" -> JString(<<"group">>)
      [] OTHER -> JString(<<"user">>)
Serialize_Order(o) == IF o = "Asc" THEN JString(<<"asc">>) ELSE JString(<<"desc">>)

\* serialize_with of SearchQuery::user: the account id's inner string.
serialize_user(x) == JString(x)

SearchQuery_fields ==
    <<"limit", "sort", "search_after", "offset", "order", "uri", "uri_parts",
      "wildcard_uri", "user", "group", "tag", "tags", "any", "quote",
      "references", "text">>
\* A slip: the attribute forgotten on `tag`, which is then always sent.
SearchQuery_skip_without_tag ==
    {"search_after", "uri", "uri_parts", "wildcard_uri", "user", "group",
     "tags", "any", "quote", "references", "text"}
SearchQuery_skip ==
    {"search_after", "uri", "uri_parts", "wildcard_uri", "user", "group", "tag",
     "tags", "any", "quote", "references", "text"}
SearchQuery_name(f) == IF f = "uri_parts" THEN "uri.parts" ELSE f
SearchQuery_enc(f, x) ==
    CASE f \in {"limit", "offset"} -> JNumber(x)
      [] f = "sort" -> Serialize_Sort(x)
      [] f = "order" -> Serialize_Order(x)
      [] f = "user" -> serialize_user(x)
      [] f = "tags" -> Serialize_VecString(x)
      [] OTHER -> JString(x)
Serialize_SearchQuery(q) ==
    SerializeStruct(SearchQuery_fields, SearchQuery_skip, q, SearchQuery_default,
                    [f \in Range(SearchQuery_fields) |-> SearchQuery_name(f)],
                    [f \in Range(SearchQuery_fields) |-> SearchQuery_enc(f, q[f])])

(***************************************************************************)
(* #[derive(Deserialize)]: what serde_json::from_str accepts for each      *)
(* response type, and the value it yields.  A type is described by a       *)
(* record; a struct by the sequence of its fields, each with its type and  *)
(* whether it carries #[serde(default)].                                   *)
(***************************************************************************)
TString == [k |-> "String"]
TBool == [k |-> "Bool"]
TUnsigned == [k |-> "Unsigned"]
TDateTime == [k |-> "DateTime"]
TSelector == [k |-> "Selector"]
TVec(elem) == [k |-> "Vec", elem |-> elem]
TMap(elem) == [k |-> "Map", elem |-> elem]
TOption(elem) == [k |-> "Option", elem |-> elem]
TStruct(fields) == [k |-> "Struct", fields |-> fields]
Field(name, ty, default) == [name |-> name, ty |-> ty, default |-> default]

\* The texts chrono parses as a DateTime<Utc>, among those the responses use.
Timestamps == {<<"2019-01-03T19:46:09.334Z">>}

TextQuoteSelector_type ==
    TStruct(<<Field("exact", TString, FALSE), Field("prefix", TString, FALSE),
              Field("suffix", TString, FALSE)>>)
TextPositionSelector_type ==
    TStruct(<<Field("start", TUnsigned, FALSE), Field("end", TUnsigned, FALSE)>>)
SelectorVariants == {<<"TextQuoteSelector">>, <<"RangeSelector">>, <<"TextPositionSelector">>}

Target_type ==
    TStruct(<<Field("source", TString, FALSE), Field("selector", TVec(TSelector), TRUE)>>)
Permissions_type ==
    TStruct(<<Field("read", TVec(TString), FALSE), Field("delete", TVec(TString), FALSE),
              Field("admin", TVec(TString), FALSE), Field("update", TVec(TString), FALSE)>>)
UserInfo_type == TStruct(<<Field("display_name", TString, TRUE)>>)
Annotation_type ==
    TStruct(<<Field("id", TString, FALSE), Field("created", TDateTime, FALSE),
              Field("updated", TDateTime, FALSE), Field("user", TString, FALSE),
              Field("uri", TString, FALSE), Field("text", TString, FALSE),
              Field("tags", TVec(TString), FALSE), Field("group", TString, FALSE),
              Field("permissions", Permissions_type, FALSE),
              Field("target", TVec(Target_type), FALSE),
              Field("links", TMap(TString), FALSE), Field("hidden", TBool, FALSE),
              Field("flagged", TBool, FALSE),
              Field("references", TVec(TString), TRUE),
              Field("user_info", TOption(UserInfo_type), TRUE)>>)
SearchResult_type ==
    TStruct(<<Field("rows", TVec(Annotation_type), FALSE),
              Field("total", TUnsigned, FALSE)>>)
DeletionResult_type ==
    TStruct(<<Field("id", TString, FALSE), Field("deleted", TBool, FALSE)>>)
APIError_type ==
    TStruct(<<Field("status", TString, FALSE), Field("reason", TString, FALSE)>>)

\* The members of an object other than those named k.
Without(members, k) == SelectSeq(members, LAMBDA m : m[1] # k)
Count(members, k) == Cardinality({i \in 1..Len(members) : members[i][1] = k})

\* A field absent from the input: its Default when it carries #[serde(default)],
\* None when it is an Option; any other field is an error.
MayBeAbsent(f) == f.default \/ f.ty.k = "Option"

RECURSIVE Accepts(_, _)
Accepts(ty, j) ==
    CASE ty.k = "String" -> j.t = "String"
      [] ty.k = "Bool" -> j.t = "Bool"
      [] ty.k = "Unsigned" -> j.t = "Number" /\ j.v >= 0
      [] ty.k = "DateTime" -> j.t = "String" /\ j.v \in Timestamps
      [] ty.k = "Vec" ->
            j.t = "Array" /\ \A i \in 1..Len(j.v) : Accepts(ty.elem, j.v[i])
      [] ty.k = "Map" ->
            j.t = "Object" /\ \A i \in 1..Len(j.v) : Accepts(ty.elem, j.v[i][2])
      [] ty.k = "Option" -> j.t = "Null" \/ Accepts(ty.elem, j)
      [] ty.k = "Selector" ->
            /\ j.t = "Object"
            /\ Count(j.v, "type") = 1
            /\ Get(j.v, "type").t = "String"
            /\ Get(j.v, "type").v \in SelectorVariants
            /\ LET tag == Get(j.v, "type").v
                   content == JObject(Without(j.v, "type"))
               IN  CASE tag = <<"TextQuoteSelector">> ->
                            Accepts(TextQuoteSelector_type, content)
                     [] tag = <<"TextPositionSelector">> ->
                            Accepts(TextPositionSelector_type, content)
                     [] OTHER -> TRUE
      [] OTHER ->
            \* a struct: from an object by field name (unknown members ignored, a
            \* repeated field refused), or from an array by position
            \/ /\ j.t = "Object"
               /\ \A i \in 1..Len(ty.fields) :
                    LET f == ty.fields[i]
                    IN  /\ Count(j.v, f.name) <= 1
                        /\ IF Count(j.v, f.name) = 1
                           THEN Accepts(f.ty, Get(j.v, f.name))
                           ELSE MayBeAbsent(f)
            \/ /\ j.t = "Array"
               /\ Len(j.v) <= Len(ty.fields)
               /\ \A i \in 1..Len(ty.fields) :
                    IF i <= Len(j.v) THEN Accepts(ty.fields[i].ty, j.v[i])
                    ELSE ty.fields[i].default

\* The Default of a field's type, used for an absent #[serde(default)] field.
DefaultOf(ty) ==
    CASE ty.k = "String" -> <<>>
      [] ty.k = "Vec" -> <<>>
      [] ty.k = "Option" -> None
      [] ty.k = "Bool" -> FALSE
      [] ty.k = "Unsigned" -> 0
      [] OTHER -> <<>>

\* The value from_str yields for an input that Accepts(ty, j).
RECURSIVE Decode(_, _)
Decode(ty, j) ==
    CASE ty.k \in {"String", "Bool", "Unsigned", "DateTime"} -> j.v
      [] ty.k = "Vec" -> [i \in 1..Len(j.v) |-> Decode(ty.elem, j.v[i])]
      [] ty.k = "Map" ->
            [key \in Keys(j.v) |-> Decode(ty.elem, Get(j.v, key))]
      [] ty.k = "Option" ->
            IF j.t = "Null" THEN None ELSE Some(Decode(ty.elem, j))
      [] ty.k = "Selector" ->
            LET tag == Get(j.v, "type").v
                content == Without(j.v, "type")
            IN  CASE tag = <<"TextQuoteSelector">> ->
                        [variant |-> "TextQuoteSelector",
                         exact |-> Get(content, "exact").v,
                         prefix |-> Get(content, "prefix").v,
                         suffix |-> Get(content, "suffix").v]
                  [] tag = <<"TextPositionSelector">> ->
                        [variant |-> "TextPositionSelector",
                         start |-> Get(content, "start").v,
                         end |-> Get(content, "end").v]
                  [] OTHER -> [variant |-> "RangeSelector", bag |-> content]
      [] OTHER ->
            LET names == {ty.fields[i].name : i \in 1..Len(ty.fields)}
                at(n) == CHOOSE i \in 1..Len(ty.fields) : ty.fields[i].name = n
            IN  [n \in names |->
                    LET f == ty.fields[at(n)]
                    IN  IF j.t = "Object"
                        THEN IF Count(j.v, n) = 1 THEN Decode(f.ty, Get(j.v, n))
                             ELSE DefaultOf(f.ty)
                        ELSE IF at(n) <= Len(j.v) THEN Decode(f.ty, j.v[at(n)])
                             ELSE DefaultOf(f.ty)]

(***************************************************************************)
(* Response bodies.  A body is the text the HTTP client returned: the JSON *)
(* value it denotes, or a text that is no JSON (empty, or anything else).  *)
(***************************************************************************)
JsonBody(value) == [syntax |-> "json", value |-> value]
EmptyBody == [syntax |-> "empty", value |-> JNull]
GarbageBody == [syntax |-> "not_json", value |-> JNull]

Ok(value) == [ok |-> TRUE, value |-> value]
SerdeError(what) == [ok |-> FALSE, error |-> what]

\* serde_json::from_str::<T>(&text)
from_str(ty, text) ==
    CASE text.syntax = "empty" -> SerdeError("EOF while parsing a value")
      [] text.syntax = "not_json" -> SerdeError("expected value")
      [] OTHER ->
            IF Accepts(ty, text.value) THEN Ok(Decode(ty, text.value))
            ELSE SerdeError("invalid type or missing field")

\* A slip: the parsed APIError dropped, the default taken whatever the parse gave.
unwrap_or_default_always_default(r) == APIError_default
\* Result::unwrap_or_default of the APIError parse
unwrap_or_default(r) == IF r.ok THEN r.value ELSE APIError_default

(***************************************************************************)
(* The requests of the eight operations.                                   *)
(***************************************************************************)
\* crate::API_URL, the base of every path.
API_URL == <<"{API_URL}">>

Request(method, url, json, query) ==
    [method |-> method, url |-> url, json |-> json, query |-> query]

create_annotation_request(annotation) ==
    Request("POST", API_URL \o <<"/annotations">>,
            Some(Serialize_InputAnnotation(annotation)), None)

update_annotation_request(id, annotation) ==
    Request("PATCH", API_URL \o <<"/annotations/">> \o id,
            Some(Serialize_InputAnnotation(annotation)), None)

\* serde_json::from_str::<HashMap<String, Value>> of the query's JSON text: one
\* entry per key.
ToHashMap(j) == [key \in Keys(j.v) |-> Get(j.v, key)]

\* The (key, value) pairs given to Url::parse_with_params; a HashMap is iterated in
\* no particular order, so the pairs are a set.
search_params(query) ==
    LET map == ToHashMap(Serialize_SearchQuery(query))
    IN  {<<key, ReplaceQuotes(ValueToString(map[key]))>> : key \in DOMAIN map}

search_annotations_request(query) ==
    Request("GET", API_URL \o <<"/search">>, None, Some(search_params(query)))

fetch_annotation_request(id) ==
    Request("GET", API_URL \o <<"/annotations/">> \o id, None, None)

delete_annotation_request(id) ==
    Request("DELETE", API_URL \o <<"/annotations/">> \o id, None, None)

flag_annotation_request(id) ==
    Request("PUT", API_URL \o <<"/annotations/">> \o id \o <<"/flag">>, None, None)

hide_annotation_request(id) ==
    Request("PUT", API_URL \o <<"/annotations/">> \o id \o <<"/hide">>, None, None)

\* A slip: show sent with hide's method.
show_annotation_request_put(id) ==
    Request("PUT", API_URL \o <<"/annotations/">> \o id \o <<"/hide">>, None, None)
show_annotation_request(id) ==
    Request("DELETE", API_URL \o <<"/annotations/">> \o id \o <<"/hide">>, None, None)

(***************************************************************************)
(* The classification of a response body.                                  *)
(***************************************************************************)
\* from_str::<T>(&text).wrap_err(from_str::<APIError>(&text).unwrap_or_default())
\*     .suggestion(hint)
\* An Ok passes through; an Err is the parse error of T, wrapped in the APIError
\* context, with the suggestion attached.
\* A slip: the error envelope looked for first, so that a body that parses as both
\* is a failure.
classify_error_first(ty, text, hint) ==
    LET parsed == from_str(ty, text)
        error == from_str(APIError_type, text)
    IN  IF error.ok
        THEN [ok |-> FALSE, error |-> "APIError", context |-> error.value,
              suggestion |-> hint]
        ELSE IF parsed.ok THEN parsed
        ELSE [ok |-> FALSE, error |-> parsed.error, context |-> APIError_default,
              suggestion |-> hint]
classify(ty, text, hint) ==
    LET parsed == from_str(ty, text)
        context == unwrap_or_default(from_str(APIError_type, text))
    IN  IF parsed.ok THEN parsed
        ELSE [ok |-> FALSE, error |-> parsed.error, context |-> context,
              suggestion |-> hint]

\* flag, hide, show: an APIError in the body is the error, anything else is Ok(()).
\* A slip: a body that is no JSON taken for a failure.
classify_moderation_json_only(text, hint) ==
    LET error == from_str(APIError_type, text)
    IN  IF error.ok \/ text.syntax # "json"
        THEN [ok |-> FALSE, error |-> unwrap_or_default(error), suggestion |-> hint]
        ELSE Ok(<<>>)
classify_moderation(text, hint) ==
    LET error == from_str(APIError_type, text)
    IN  IF error.ok
        THEN [ok |-> FALSE, error |-> error.value, suggestion |-> hint]
        ELSE Ok(<<>>)

create_annotation_result(text) ==
    classify(Annotation_type, text, "Make sure input fields are valid")

update_annotation_result(text) ==
    classify(Annotation_type, text, "Make sure input fields are valid")

search_annotations_result(text) ==
    LET r == classify(SearchResult_type, text, "Make sure the query is valid")
    IN  IF r.ok THEN Ok(r.value.rows) ELSE r

fetch_annotation_result(text) ==
    classify(Annotation_type, text, "Make sure the given String exists")

delete_annotation_result(text) ==
    LET r == classify(DeletionResult_type, text, "Make sure the given Annotation ID exists")
    IN  IF r.ok THEN Ok(r.value.deleted) ELSE r

flag_annotation_result(text) ==
    classify_moderation(text, "Make sure the given Annotation ID exists")

hide_annotation_result(text) ==
    classify_moderation(text, "Make sure the given Annotation ID exists")

show_annotation_result(text) ==
    classify_moderation(text, "Make sure the given Annotation ID exists")

\* `.send().await?` or `.text().await?` failed: the reqwest error is returned as is.
TransportError == [ok |-> FALSE, error |-> "reqwest::Error"]

(***************************************************************************)
(* #[derive(Builder)]: a builder holds an Option per field, None until its *)
(* setter is called.  The generated build function (named `builder`) takes *)
(* each field's value, or else its default: the #[builder(default)] of the *)
(* field, or the field of the struct's Default when the struct carries     *)
(* #[builder(default)]; a field with neither is required, and the build of *)
(* a builder that lacks it fails with UninitializedField.                  *)
(***************************************************************************)
\* The default build() uses for each field: Some(value), or None for a required field.
InputAnnotation_builder_default ==
    [f \in Range(InputAnnotation_fields) |-> Some(InputAnnotation_default[f])]

Document_builder_default ==
    [title |-> None, dc |-> Some(None), highwire |-> Some(None), link |-> None]

\* A slip: Target's fields given a default, as if the struct carried #[builder(default)].
Target_builder_default_all_optional == [source |-> Some(<<>>), selector |-> Some(<<>>)]
Target_builder_default == [source |-> None, selector |-> None]

\* A slip: limit's #[builder(default = "20")] left out, the struct's Default taken.
SearchQuery_builder_default_of_struct ==
    [f \in Range(SearchQuery_fields) |-> Some(SearchQuery_default[f])]

SearchQuery_builder_default ==
    [f \in Range(SearchQuery_fields) |->
        IF f = "limit" THEN Some(20) ELSE Some(SearchQuery_default[f])]

\* Fields whose setter carries strip_option: the setter takes T and stores Some(T).
InputAnnotation_strip_option == {"tags", "document"}
Document_strip_option == {"dc", "highwire"}

\* XBuilder::default(): no field set.
NewBuilder(kind, fields) ==
    [kind |-> kind, fields |-> [f \in Range(fields) |-> None]]

\* A slip: a setter that keeps the value of a field already set.
Set_first_write_wins(b, f, value) ==
    IF IsSome(b.fields[f]) THEN b ELSE [b EXCEPT !.fields[f] = Some(value)]

\* A setter: the field becomes Some(value), whatever it was.
Set(b, f, value) == [b EXCEPT !.fields[f] = Some(value)]

\* The generated build function, and build()'s map_err(|e| eyre!(e)) around it.
derive_build(set, fields, default) ==
    LET missing == {i \in 1..Len(fields) :
                        ~IsSome(set[fields[i]]) /\ ~IsSome(default[fields[i]])}
    IN  IF missing # {}
        THEN [ok |-> FALSE,
              error |-> <<"UninitializedField",
                          fields[CHOOSE i \in missing : \A m \in missing : i <= m]>>]
        ELSE Ok([f \in Range(fields) |->
                    IF IsSome(set[f]) THEN Unwrap(set[f]) ELSE Unwrap(default[f])])

InputAnnotationBuilder_build(b) ==
    derive_build(b.fields, InputAnnotation_fields, InputAnnotation_builder_default)

DocumentBuilder_build(b) ==
    derive_build(b.fields, Document_fields, Document_builder_default)

TargetBuilder_build(b) ==
    derive_build(b.fields, Target_fields, Target_builder_default)

SearchQueryBuilder_build(b) ==
    derive_build(b.fields, SearchQuery_fields, SearchQuery_builder_default)

(***************************************************************************)
(* The arguments the operations are called with, and the bodies the HTTP   *)
(* client may return.                                                      *)
(***************************************************************************)
Ids == {<<"id1">>, <<"id2">>}

\* The SearchQuery of a builder on which no setter was called.
SearchQuery_unset ==
    SearchQueryBuilder_build(NewBuilder("SearchQueryBuilder", SearchQuery_fields)).value

\* The values a field of an argument takes when it is not the default.
InputAnnotation_alt(f) ==
    CASE f = "uri" -> << <<"http://example.com">> >>
      [] f = "text" -> << <<"string">> >>
      [] f = "tags" -> <<Some(<<>>), Some(<< <<"tag1">>, <<"tag2">> >>)>>
      [] f = "document" ->
            <<Some(Document_default),
              Some([Document_default EXCEPT !.title = << <<"A title">> >>])>>
      [] f = "group" -> << <<"__world__">> >>
      [] f = "target" ->
            << [source |-> <<"http://example.com">>,
                selector |-> <<Selector_new_quote(<<"exact">>, <<"pre">>, <<"suf">>)>>] >>
      [] OTHER -> << << <<"id1">> >> >>

StringAlt == << <<"a">>, <<"a", DQ, "b">>, <<"a", BS>> >>

SearchQuery_alt(f) ==
    CASE f = "limit" -> <<5, 0, 255>>
      [] f = "sort" -> <<"Created", "Id">>
      [] f = "order" -> <<"Asc">>
      [] f = "offset" -> <<1>>
      [] f = "search_after" -> << <<"2019-01-03T19:46:09.334Z">> >>
      [] f = "user" -> << <<"acct:x@y">> >>
      [] f = "tags" -> << << <<"tag1">> >>, << <<"tag1">>, <<"tag2">> >> >>
      [] OTHER -> StringAlt

\* The choices of at most MaxFieldsSet fields, each with the index of its value.
Choices(fields, alt) ==
    LET widest == CHOOSE f \in DOMAIN alt : \A g \in DOMAIN alt : Len(alt[g]) <= Len(alt[f])
    IN
    UNION {{c \in [S -> 1..Len(alt[widest])] : \A f \in S : c[f] <= Len(alt[f])} :
            S \in {S \in SUBSET Range(fields) : Cardinality(S) <= MaxFieldsSet}}

\* The argument a choice stands for: the chosen value of each chosen field, and
\* `base` elsewhere.
Apply(base, fields, alt, c) ==
    [f \in Range(fields) |-> IF f \in DOMAIN c THEN alt[f][c[f]] ELSE base[f]]

InputAnnotation_alts == [f \in Range(InputAnnotation_fields) |-> InputAnnotation_alt(f)]
SearchQuery_alts == [f \in Range(SearchQuery_fields) |-> SearchQuery_alt(f)]

Timestamp == JString(<<"2019-01-03T19:46:09.334Z">>)

AnnotationMembers ==
    << <<"id", JString(<<"id1">>)>>,
       <<"created", Timestamp>>,
       <<"updated", Timestamp>>,
       <<"user", JString(<<"acct:x@y">>)>>,
       <<"uri", JString(<<"http://example.com">>)>>,
       <<"text", JString(<<"string">>)>>,
       <<"tags", JArray(<<JString(<<"tag1">>)>>)>>,
       <<"group", JString(<<"__world__">>)>>,
       <<"permissions",
         JObject(<< <<"read", JArray(<<JString(<<"group:__world__">>)>>)>>,
                    <<"delete", JArray(<<JString(<<"acct:x@y">>)>>)>>,
                    <<"admin", JArray(<<JString(<<"acct:x@y">>)>>)>>,
                    <<"update", JArray(<<JString(<<"acct:x@y">>)>>)>> >>)>>,
       <<"target",
         JArray(<<JObject(<< <<"source", JString(<<"http://example.com">>)>>,
                             <<"selector",
                               JArray(<<Serialize_Selector(
                                   Selector_new_quote(<<"exact">>, <<"pre">>, <<"suf">>))>>)>> >>)>>)>>,
       <<"links", JObject(<< <<"html", JString(<<"https://hypothes.is/a/id1">>)>> >>)>>,
       <<"hidden", JBool(FALSE)>>,
       <<"flagged", JBool(FALSE)>> >>

ErrorMembers(status, reason) ==
    << <<"status", JString(status)>>, <<"reason", JString(reason)>> >>

NotFound == ErrorMembers(<<"failure">>, <<"Not Found">>)

DeletionMembers(deleted) ==
    << <<"id", JString(<<"id1">>)>>, <<"deleted", JBool(deleted)>> >>

SearchMembers(rows) ==
    << <<"rows", JArray(rows)>>, <<"total", JNumber(Len(rows))>> >>

\* The member lists of the JSON objects among the bodies.
ObjectBodies ==
    << <<>>,
       AnnotationMembers,
       AnnotationMembers \o NotFound,
       Without(AnnotationMembers, "id"),
       Without(AnnotationMembers, "hidden") \o << <<"hidden", JString(<<"no">>)>> >>,
       AnnotationMembers \o << <<"references", JArray(<<JString(<<"id2">>)>>)>>,
                               <<"user_info", JNull>> >>,
       NotFound,
       ErrorMembers(<<>>, <<>>),
       NotFound \o << <<"extra", JNumber(1)>> >>,
       << <<"status", JString(<<"failure">>)>> >>,
       << <<"status", JNumber(404)>>, <<"reason", JString(<<"Not Found">>)>> >>,
       DeletionMembers(TRUE),
       DeletionMembers(FALSE),
       DeletionMembers(TRUE) \o NotFound,
       << <<"id", JString(<<"id1">>)>> >>,
       SearchMembers(<<>>),
       SearchMembers(<<JObject(AnnotationMembers)>>),
       SearchMembers(<<JObject(AnnotationMembers)>>) \o NotFound,
       SearchMembers(<<JObject(Without(AnnotationMembers, "id"))>>) >>

\* The element lists of the JSON arrays among the bodies.
ArrayBodies ==
    << <<>>,
       <<JString(<<"failure">>), JString(<<"Not Found">>)>>,
       <<JString(<<"id1">>), JBool(TRUE)>> >>

\* The bodies, as a sequence (their values are of too many shapes for one set).
Bodies ==
    <<EmptyBody, GarbageBody>>
    \o [i \in 1..Len(ObjectBodies) |-> JsonBody(JObject(ObjectBodies[i]))]
    \o [i \in 1..Len(ArrayBodies) |-> JsonBody(JArray(ArrayBodies[i]))]

(***************************************************************************)
(* The state machine: a caller invokes one operation at a time; the        *)
(* operation hands its request to the HTTP client and awaits; the client   *)
(* fails or returns a body, which the operation classifies and returns.    *)
(***************************************************************************)
NoRequest == [method |-> "none"]
NoBody == [syntax |-> "none"]
NoResult == [ok |-> "none"]
NoInput == [id |-> None]
NoBuilder == [kind |-> "none"]

Init ==
    /\ pc = "idle"
    /\ op = "none"
    /\ input = NoInput
    /\ request = NoRequest
    /\ http_calls = 0
    /\ body = NoBody
    /\ result = NoResult
    /\ builder = NoBuilder
    /\ nset = 0
    /\ built = NoResult
    /\ last = <<>>
    /\ builds = <<>>

Send(name, args, req) ==
    /\ pc = "idle"
    /\ op' = name
    /\ input' = args
    /\ request' = req
    /\ http_calls' = http_calls + 1
    /\ pc' = "awaiting"
    /\ UNCHANGED <<body, result, buildvars>>

Receive(name, text, res) ==
    /\ pc = "awaiting"
    /\ op = name
    /\ body' = text
    /\ result' = res
    /\ pc' = "returned"
    /\ UNCHANGED <<op, input, request, http_calls, buildvars>>

create_annotation ==
    \/ /\ pc = "idle"
       /\ \E c \in Choices(InputAnnotation_fields, InputAnnotation_alts) :
           LET annotation == Apply(InputAnnotation_default, InputAnnotation_fields,
                                   InputAnnotation_alts, c)
           IN  Send("create_annotation", [annotation |-> annotation],
                    create_annotation_request(annotation))
    \/ /\ pc = "awaiting"
       /\ \E i \in 1..Len(Bodies) :
           Receive("create_annotation", Bodies[i], create_annotation_result(Bodies[i]))

update_annotation ==
    \/ /\ pc = "idle"
       /\ \E id \in Ids, c \in Choices(InputAnnotation_fields, InputAnnotation_alts) :
           LET annotation == Apply(InputAnnotation_default, InputAnnotation_fields,
                                   InputAnnotation_alts, c)
           IN  Send("update_annotation", [id |-> id, annotation |-> annotation],
                    update_annotation_request(id, annotation))
    \/ /\ pc = "awaiting"
       /\ \E i \in 1..Len(Bodies) :
           Receive("update_annotation", Bodies[i], update_annotation_result(Bodies[i]))

search_annotations ==
    \/ /\ pc = "idle"
       /\ \E c \in Choices(SearchQuery_fields, SearchQuery_alts) :
           LET query == Apply(SearchQuery_unset, SearchQuery_fields, SearchQuery_alts, c)
           IN  Send("search_annotations", [query |-> query],
                    search_annotations_request(query))
    \/ /\ pc = "awaiting"
       /\ \E i \in 1..Len(Bodies) :
           Receive("search_annotations", Bodies[i], search_annotations_result(Bodies[i]))

fetch_annotation ==
    \/ /\ pc = "idle"
       /\ \E id \in Ids :
           Send("fetch_annotation", [id |-> id], fetch_annotation_request(id))
    \/ /\ pc = "awaiting"
       /\ \E i \in 1..Len(Bodies) :
           Receive("fetch_annotation", Bodies[i], fetch_annotation_result(Bodies[i]))

delete_annotation ==
    \/ /\ pc = "idle"
       /\ \E id \in Ids :
           Send("delete_annotation", [id |-> id], delete_annotation_request(id))
    \/ /\ pc = "awaiting"
       /\ \E i \in 1..Len(Bodies) :
           Receive("delete_annotation", Bodies[i], delete_annotation_result(Bodies[i]))

flag_annotation ==
    \/ /\ pc = "idle"
       /\ \E id \in Ids :
           Send("flag_annotation", [id |-> id], flag_annotation_request(id))
    \/ /\ pc = "awaiting"
       /\ \E i \in 1..Len(Bodies) :
           Receive("flag_annotation", Bodies[i], flag_annotation_result(Bodies[i]))

hide_annotation ==
    \/ /\ pc = "idle"
       /\ \E id \in Ids :
           Send("hide_annotation", [id |-> id], hide_annotation_request(id))
    \/ /\ pc = "awaiting"
       /\ \E i \in 1..Len(Bodies) :
           Receive("hide_annotation", Bodies[i], hide_annotation_result(Bodies[i]))

show_annotation ==
    \/ /\ pc = "idle"
       /\ \E id \in Ids :
           Send("show_annotation", [id |-> id], show_annotation_request(id))
    \/ /\ pc = "awaiting"
       /\ \E i \in 1..Len(Bodies) :
           Receive("show_annotation", Bodies[i], show_annotation_result(Bodies[i]))

\* A slip: a failed request sent once more instead of the error being returned.
TransportFailure_retried ==
    /\ pc = "awaiting"
    /\ http_calls < 2
    /\ http_calls' = http_calls + 1
    /\ UNCHANGED <<pc, op, input, request, body, result, buildvars>>

\* The HTTP client failed: `?` returns its error, and no body is classified.
TransportFailure ==
    /\ pc = "awaiting"
    /\ result' = TransportError
    /\ pc' = "returned"
    /\ UNCHANGED <<op, input, request, http_calls, body, buildvars>>

\* The caller takes the result; the next invocation starts afresh.
Return ==
    /\ pc = "returned"
    /\ pc' = "idle"
    /\ op' = "none"
    /\ input' = NoInput
    /\ request' = NoRequest
    /\ http_calls' = 0
    /\ body' = NoBody
    /\ result' = NoResult
    /\ UNCHANGED buildvars

(***************************************************************************)
(* The builders: a caller makes a builder, calls setters on it and calls   *)
(* build(), in any order; build() takes &self and leaves the builder as it *)
(* is.                                                                     *)
(***************************************************************************)
\* The arguments the setters are called with.
InputAnnotation_setter_args(f) ==
    CASE f = "tags" -> << <<>>, << <<"tag1">>, <<"tag2">> >> >>
      [] f = "document" ->
            <<Document_default, [Document_default EXCEPT !.title = << <<"A title">> >>]>>
      [] OTHER -> InputAnnotation_alt(f) \o <<InputAnnotation_default[f]>>

Document_setter_args(f) ==
    CASE f = "title" -> << << <<"A title">> >>, <<>> >>
      [] f = "dc" -> <<Dc_default, [identifier |-> << <<"doi:1">> >>]>>
      [] f = "highwire" -> <<HighWire_default>>
      [] OTHER -> << <<[href |-> <<"http://example.com">>, link_type |-> <<>>]>>, <<>> >>

Target_setter_args(f) ==
    IF f = "source" THEN << <<"http://example.com">>, <<>> >>
    ELSE << <<Selector_new_quote(<<"exact">>, <<"pre">>, <<"suf">>)>>, <<>> >>

SearchQuery_setter_args(f) ==
    IF f = "limit" THEN SearchQuery_alt(f)
    ELSE SubSeq(SearchQuery_alt(f) \o <<SearchQuery_unset[f]>>, 1, 2)

\* What a setter stores for its argument: Some(argument) under strip_option.
Stored(strip_option, f, arg) == IF f \in strip_option THEN Some(arg) ELSE arg

InputAnnotationBuilder_new ==
    /\ builder' = NewBuilder("InputAnnotationBuilder", InputAnnotation_fields)
    /\ nset' = 0
    /\ built' = NoResult
    /\ last' = [f \in Range(InputAnnotation_fields) |-> None]
    /\ builds' = <<>>
    /\ UNCHANGED opvars

InputAnnotationBuilder_setter ==
    /\ builder.kind = "InputAnnotationBuilder"
    /\ nset < MaxSetterCalls
    /\ \E f \in Range(InputAnnotation_fields) :
        \E i \in 1..Len(InputAnnotation_setter_args(f)) :
            /\ builder' = Set(builder, f, Stored(InputAnnotation_strip_option, f,
                                                 InputAnnotation_setter_args(f)[i]))
            /\ last' = [last EXCEPT ![f] = Some(InputAnnotation_setter_args(f)[i])]
    /\ nset' = nset + 1
    /\ builds' = <<>>
    /\ UNCHANGED <<built, opvars>>

InputAnnotationBuilder_build_call ==
    /\ builder.kind = "InputAnnotationBuilder"
    /\ Len(builds) < MaxBuildCalls
    /\ built' = InputAnnotationBuilder_build(builder)
    /\ builds' = Append(builds, InputAnnotationBuilder_build(builder))
    /\ UNCHANGED <<builder, nset, last, opvars>>

DocumentBuilder_new ==
    /\ builder' = NewBuilder("DocumentBuilder", Document_fields)
    /\ nset' = 0
    /\ built' = NoResult
    /\ last' = [f \in Range(Document_fields) |-> None]
    /\ builds' = <<>>
    /\ UNCHANGED opvars

DocumentBuilder_setter ==
    /\ builder.kind = "DocumentBuilder"
    /\ nset < MaxSetterCalls
    /\ \E f \in Range(Document_fields) :
        \E i \in 1..Len(Document_setter_args(f)) :
            /\ builder' = Set(builder, f, Stored(Document_strip_option, f,
                                                 Document_setter_args(f)[i]))
            /\ last' = [last EXCEPT ![f] = Some(Document_setter_args(f)[i])]
    /\ nset' = nset + 1
    /\ builds' = <<>>
    /\ UNCHANGED <<built, opvars>>

DocumentBuilder_build_call ==
    /\ builder.kind = "DocumentBuilder"
    /\ Len(builds) < MaxBuildCalls
    /\ built' = DocumentBuilder_build(builder)
    /\ builds' = Append(builds, DocumentBuilder_build(builder))
    /\ UNCHANGED <<builder, nset, last, opvars>>

TargetBuilder_new ==
    /\ builder' = NewBuilder("TargetBuilder", Target_fields)
    /\ nset' = 0
    /\ built' = NoResult
    /\ last' = [f \in Range(Target_fields) |-> None]
    /\ builds' = <<>>
    /\ UNCHANGED opvars

TargetBuilder_setter ==
    /\ builder.kind = "TargetBuilder"
    /\ nset < MaxSetterCalls
    /\ \E f \in Range(Target_fields) :
        \E i \in 1..Len(Target_setter_args(f)) :
            /\ builder' = Set(builder, f, Target_setter_args(f)[i])
            /\ last' = [last EXCEPT ![f] = Some(Target_setter_args(f)[i])]
    /\ nset' = nset + 1
    /\ builds' = <<>>
    /\ UNCHANGED <<built, opvars>>

\* A slip: a build() that takes the fields out of the builder (the owned pattern).
TargetBuilder_build_call_taking_fields ==
    /\ builder.kind = "TargetBuilder"
    /\ Len(builds) < MaxBuildCalls
    /\ built' = TargetBuilder_build(builder)
    /\ builds' = Append(builds, TargetBuilder_build(builder))
    /\ builder' = NewBuilder("TargetBuilder", Target_fields)
    /\ UNCHANGED <<nset, last, opvars>>

TargetBuilder_build_call ==
    /\ builder.kind = "TargetBuilder"
    /\ Len(builds) < MaxBuildCalls
    /\ built' = TargetBuilder_build(builder)
    /\ builds' = Append(builds, TargetBuilder_build(builder))
    /\ UNCHANGED <<builder, nset, last, opvars>>

SearchQueryBuilder_new ==
    /\ builder' = NewBuilder("SearchQueryBuilder", SearchQuery_fields)
    /\ nset' = 0
    /\ built' = NoResult
    /\ last' = [f \in Range(SearchQuery_fields) |-> None]
    /\ builds' = <<>>
    /\ UNCHANGED opvars

SearchQueryBuilder_setter ==
    /\ builder.kind = "SearchQueryBuilder"
    /\ nset < MaxSetterCalls
    /\ \E f \in Range(SearchQuery_fields) :
        \E i \in 1..Len(SearchQuery_setter_args(f)) :
            /\ builder' = Set(builder, f, SearchQuery_setter_args(f)[i])
            /\ last' = [last EXCEPT ![f] = Some(SearchQuery_setter_args(f)[i])]
    /\ nset' = nset + 1
    /\ builds' = <<>>
    /\ UNCHANGED <<built, opvars>>

SearchQueryBuilder_build_call ==
    /\ builder.kind = "SearchQueryBuilder"
    /\ Len(builds) < MaxBuildCalls
    /\ built' = SearchQueryBuilder_build(builder)
    /\ builds' = Append(builds, SearchQueryBuilder_build(builder))
    /\ UNCHANGED <<builder, nset, last, opvars>>

Next ==
    \/ create_annotation
    \/ update_annotation
    \/ search_annotations
    \/ fetch_annotation
    \/ delete_annotation
    \/ flag_annotation
    \/ hide_annotation
    \/ show_annotation
    \/ TransportFailure
    \/ Return

Spec == Init /\ [][Next]_vars

NextBuild ==
    \/ InputAnnotationBuilder_new
    \/ InputAnnotationBuilder_setter
    \/ InputAnnotationBuilder_build_call
    \/ DocumentBuilder_new
    \/ DocumentBuilder_setter
    \/ DocumentBuilder_build_call
    \/ TargetBuilder_new
    \/ TargetBuilder_setter
    \/ TargetBuilder_build_call
    \/ SearchQueryBuilder_new
    \/ SearchQueryBuilder_setter
    \/ SearchQueryBuilder_build_call

\* The builders alone: no operation is invoked.
SpecBuild == Init /\ [][NextBuild]_vars

(***************************************************************************)
(* The Selector on its own: a caller encodes a Selector with                *)
(* serde_json::to_string and decodes the text with serde_json::from_str.    *)
(***************************************************************************)
OffsetAlt == <<0, 1, 10>>

\* The bags a RangeSelector is given: string-keyed, each key once.
RangeBags ==
    << <<>>,
       << <<"startContainer", JString(<<"/div[1]">>)>> >>,
       << <<"startContainer", JString(<<"/div[1]">>)>>, <<"startOffset", JNumber(0)>>,
          <<"endContainer", JString(<<"/div[2]">>)>>, <<"endOffset", JNumber(5)>> >>,
       << <<"startOffset", JNumber(0)>>, <<"nested", JObject(<< <<"type", JNull>> >>)>> >>,
       << <<"note", JString(<<"a", DQ, "b">>)>>, <<"flags", JArray(<<JBool(TRUE)>>)>> >>,
       << <<"type", JString(<<"x">>)>> >>,
       << <<"type", JString(<<"RangeSelector">>)>> >>,
       << <<"startOffset", JNumber(0)>>, <<"type", JString(<<"TextQuoteSelector">>)>> >> >>

Selectors ==
    [n \in 1..27 |->
        Selector_new_quote(StringAlt[((n - 1) % 3) + 1],
                           StringAlt[(((n - 1) \div 3) % 3) + 1],
                           StringAlt[((n - 1) \div 9) + 1])]
    \o [n \in 1..9 |->
        [variant |-> "TextPositionSelector",
         start |-> OffsetAlt[((n - 1) % 3) + 1],
         end |-> OffsetAlt[((n - 1) \div 3) + 1]]]
    \o [n \in 1..Len(RangeBags) |-> [variant |-> "RangeSelector", bag |-> RangeBags[n]]]

InitSelector ==
    /\ pc = "idle"
    /\ op = "none"
    /\ \E n \in 1..Len(Selectors) : input = [selector |-> Selectors[n]]
    /\ request = NoRequest
    /\ http_calls = 0
    /\ body = NoBody
    /\ result = NoResult
    /\ builder = NoBuilder
    /\ nset = 0
    /\ built = NoResult
    /\ last = <<>>
    /\ builds = <<>>

\* serde_json::to_string(&selector)
Selector_to_string ==
    /\ pc = "idle"
    /\ body' = JsonBody(Serialize_Selector(input.selector))
    /\ pc' = "encoded"
    /\ UNCHANGED <<op, input, request, http_calls, result, buildvars>>

\* serde_json::from_str::<Selector>(&text)
Selector_from_str ==
    /\ pc = "encoded"
    /\ result' = from_str(TSelector, body)
    /\ pc' = "decoded"
    /\ UNCHANGED <<op, input, request, http_calls, body, buildvars>>

NextSelector ==
    \/ Selector_to_string
    \/ Selector_from_str

SpecSelector == InitSelector /\ [][NextSelector]_vars

(***************************************************************************)
(* Properties of the request encoding.                                     *)
(***************************************************************************)
Sending(names) == pc # "idle" /\ op \in names

\* The JSON body of the create or update request in progress.
SentJson == Unwrap(request.json)
\* The query parameters of the search request in progress, and their keys.
SentParams == Unwrap(request.query)
SentParamKeys == {p[1] : p \in SentParams}

\* The default of each InputAnnotation field: the empty string, no value, the empty
\* list, and the target with neither source nor selector.
C1_Default(f) ==
    CASE f \in {"uri", "text", "group"} -> <<>>
      [] f \in {"tags", "document"} -> None
      [] f = "target" -> [source |-> <<>>, selector |-> <<>>]
      [] OTHER -> <<>>

\* C1: in the JSON body of create_annotation and update_annotation, each field of
\* the InputAnnotation (uri, text, tags, document, group, target, references) is a
\* key of the body if and only if its value differs from the field's default; an
\* InputAnnotation with only uri and text set encodes to exactly the keys uri and
\* text.
C1_FieldPresentIffNotDefault ==
    Sending({"create_annotation", "update_annotation"}) =>
        /\ \A f \in {"uri", "text", "tags", "document", "group", "target", "references"} :
            HasKey(SentJson, f) <=> input.annotation[f] # C1_Default(f)
        /\ ({f \in {"uri", "text", "tags", "document", "group", "target", "references"} :
                input.annotation[f] # C1_Default(f)} = {"uri", "text"}
            => Keys(SentJson.v) = {"uri", "text"})

C1_Witness ==
    /\ Sending({"update_annotation"})
    /\ input.annotation.uri # <<>>
    /\ input.annotation.text # <<>>
    /\ input.annotation.group = <<>>
    /\ Keys(SentJson.v) = {"uri", "text"}

\* C2: tags left unset and tags set to the empty list are encoded differently: with
\* tags unset the body has no tags key, with tags the empty list the body has a
\* tags key whose value is the empty array.
C2_UnsetTagsOmittedEmptyTagsSent ==
    Sending({"create_annotation", "update_annotation"}) =>
        /\ input.annotation.tags = None => ~HasKey(SentJson, "tags")
        /\ input.annotation.tags = Some(<<>>) =>
            /\ Count(SentJson.v, "tags") = 1
            /\ Get(SentJson.v, "tags").t = "Array"
            /\ Get(SentJson.v, "tags").v = <<>>

C2_Witness ==
    /\ Sending({"create_annotation"})
    /\ input.annotation.tags = Some(<<>>)
    /\ HasKey(SentJson, "tags")

\* The documented default of each SearchQuery field.
C3_DocumentedDefault(f) ==
    CASE f = "limit" -> 20
      [] f = "sort" -> "Updated"
      [] f = "order" -> "Desc"
      [] f = "offset" -> 0
      [] OTHER -> <<>>

\* The name of a SearchQuery field in the query string.
C3_Key(f) == IF f = "uri_parts" THEN "uri.parts" ELSE f

C3_AllFields ==
    {"limit", "sort", "search_after", "offset", "order", "uri", "uri_parts",
     "wildcard_uri", "user", "group", "tag", "tags", "any", "quote", "references",
     "text"}

C4_Exact(f, x) ==
    CASE f \in {"limit", "offset"} -> ToDecimal(x)
      [] f = "sort" ->
            (CASE x = "Created" -> <<"created">> [] x = "Updated" -> <<"updated">>
               [] x = "Id" -> <<"id">> [] x = "Group" -> <<"group">>
               [] OTHER -> <<"user">>)
      [] f = "order" -> IF x = "Asc" THEN <<"asc">> ELSE <<"desc">>
      [] OTHER -> x

\* C4: for every scalar field of the SearchQuery whose value is not the default,
\* the query string has a parameter for the field whose value is exactly the
\* field's value: a string that holds a double quote or a backslash is sent
\* unchanged.
C4_ScalarSentExactly ==
    Sending({"search_annotations"}) =>
        \A f \in C3_AllFields \ {"tags"} :
            input.query[f] # C3_DocumentedDefault(f) =>
                /\ <<C3_Key(f), C4_Exact(f, input.query[f])>> \in SentParams
                /\ \A p \in SentParams :
                    p[1] = C3_Key(f) => p[2] = C4_Exact(f, input.query[f])

(***************************************************************************)
(* Properties of the response classification.                              *)
(***************************************************************************)
Classified == {"create_annotation", "update_annotation", "search_annotations",
               "fetch_annotation", "delete_annotation"}
Moderation == {"flag_annotation", "hide_annotation", "show_annotation"}

\* The operation `names` has returned after the HTTP call returned a body.
Returned(names) == pc = "returned" /\ op \in names /\ body.syntax # "none"

\* The success type of each operation.
SuccessType(name) ==
    CASE name = "search_annotations" -> SearchResult_type
      [] name = "delete_annotation" -> DeletionResult_type
      [] OTHER -> Annotation_type

ParsesAs(ty, text) == text.syntax = "json" /\ Accepts(ty, text.value)

\* The status and the reason an error envelope carries: the members of the object,
\* or the two elements of the array serde also reads a struct from.
EnvelopeOf(text) ==
    IF text.value.t = "Object"
    THEN [status |-> Get(text.value.v, "status").v,
          reason |-> Get(text.value.v, "reason").v]
    ELSE [status |-> text.value.v[1].v, reason |-> text.value.v[2].v]

\* C5: once the HTTP call has returned a body, create, update, fetch, search and
\* delete return a success if and only if the body parses as the operation's
\* success type, whether or not the body also parses as an APIError.
C5_SuccessIffBodyParses ==
    Returned(Classified) =>
        (result.ok <=> ParsesAs(SuccessType(op), body))

C5_Witness ==
    /\ Returned({"create_annotation"})
    /\ ParsesAs(Annotation_type, body)
    /\ ParsesAs(APIError_type, body)
    /\ result.ok

\* The remediation hint of each call site.
C6_Hint(name) ==
    CASE name \in {"create_annotation", "update_annotation"} ->
            "Make sure input fields are valid"
      [] name = "search_annotations" -> "Make sure the query is valid"
      [] name = "fetch_annotation" -> "Make sure the given String exists"
      [] OTHER -> "Make sure the given Annotation ID exists"

\* C6: when the body does not parse as the success type but parses as an APIError,
\* create, update, fetch, search and delete return a failure that carries exactly
\* the status and reason of the body, with the remediation hint of the call site.
C6_FailureCarriesStatusAndReason ==
    (/\ Returned(Classified)
     /\ ~ParsesAs(SuccessType(op), body)
     /\ ParsesAs(APIError_type, body)) =>
        /\ ~result.ok
        /\ result.context = EnvelopeOf(body)
        /\ result.suggestion = C6_Hint(op)

C6_Witness ==
    /\ Returned({"fetch_annotation"})
    /\ ~result.ok
    /\ result.context = [status |-> <<"failure">>, reason |-> <<"Not Found">>]
    /\ result.suggestion = "Make sure the given String exists"

\* C7: when the body parses neither as the success type nor as an APIError, the
\* operation returns a decode failure that carries the raw body and the parse
\* error, and no default-valued APIError (empty status and reason).
C7_DecodeFailureKeepsBodyNoDefaultError ==
    (/\ Returned(Classified)
     /\ ~ParsesAs(SuccessType(op), body)
     /\ ~ParsesAs(APIError_type, body)) =>
        /\ ~result.ok
        /\ "error" \in DOMAIN result
        /\ "raw_text" \in DOMAIN result
        /\ ~("context" \in DOMAIN result
             /\ result.context = [status |-> <<>>, reason |-> <<>>])

\* C8: flag, hide and show return a failure carrying the APIError exactly when the
\* body parses as an APIError, and success for every other body: an empty body,
\* a text that is no JSON, a JSON value that is no error envelope.
C8_ModerationFailsIffErrorEnvelope ==
    Returned(Moderation) =>
        IF ParsesAs(APIError_type, body)
        THEN ~result.ok /\ result.error = EnvelopeOf(body)
        ELSE result.ok

C8_Witness ==
    /\ Returned({"hide_annotation"})
    /\ body.syntax = "json"
    /\ HasKey(body.value, "status")
    /\ ~ParsesAs(APIError_type, body)
    /\ result.ok

(***************************************************************************)
(* Properties of the requests.                                             *)
(***************************************************************************)
ById == API_URL \o <<"/annotations/">> \o input.id

\* C9: each operation sends the method and path of its row: create POST
\* /annotations and update PATCH /annotations/{id}, both with the InputAnnotation
\* as JSON body; search GET /search with the query parameters; fetch GET and
\* delete DELETE /annotations/{id}; flag PUT /annotations/{id}/flag; hide PUT and
\* show DELETE /annotations/{id}/hide; fetch, delete, flag, hide and show send no
\* body.
C9_MethodAndPath ==
    pc # "idle" =>
        CASE op = "create_annotation" ->
                /\ request.method = "POST"
                /\ request.url = API_URL \o <<"/annotations">>
                /\ IsSome(request.json)
                /\ request.query = None
          [] op = "update_annotation" ->
                /\ request.method = "PATCH"
                /\ request.url = ById
                /\ IsSome(request.json)
                /\ request.query = None
          [] op = "search_annotations" ->
                /\ request.method = "GET"
                /\ request.url = API_URL \o <<"/search">>
                /\ request.json = None
                /\ IsSome(request.query)
          [] op = "fetch_annotation" ->
                request = [method |-> "GET", url |-> ById, json |-> None, query |-> None]
          [] op = "delete_annotation" ->
                request = [method |-> "DELETE", url |-> ById, json |-> None, query |-> None]
          [] op = "flag_annotation" ->
                request = [method |-> "PUT", url |-> ById \o <<"/flag">>,
                           json |-> None, query |-> None]
          [] op = "hide_annotation" ->
                request = [method |-> "PUT", url |-> ById \o <<"/hide">>,
                           json |-> None, query |-> None]
          [] op = "show_annotation" ->
                request = [method |-> "DELETE", url |-> ById \o <<"/hide">>,
                           json |-> None, query |-> None]
          [] OTHER -> FALSE

C9_Witness ==
    /\ pc = "awaiting"
    /\ op = "show_annotation"
    /\ request.method = "DELETE"
    /\ request.url = <<"{API_URL}", "/annotations/", "id2", "/hide">>

(***************************************************************************)
(* Properties of the builders.                                             *)
(***************************************************************************)
\* A step that is a call of build(): the builder is as it was, and a result is new.
BuildStep == builder' = builder /\ built' # built /\ DOMAIN built' # {"ok"}

\* The fields of the builder no setter was called for.
Unset == {f \in DOMAIN builder.fields : builder.fields[f] = None}

\* The declared default of each field of the four value types.
C10_DeclaredDefault(kind, f) ==
    CASE kind = "InputAnnotationBuilder" -> C1_Default(f)
      [] kind = "SearchQueryBuilder" -> C3_DocumentedDefault(f)
      [] kind = "DocumentBuilder" -> IF f \in {"dc", "highwire"} THEN None ELSE <<>>
      [] OTHER -> <<>>

\* The fields build() cannot do without.
C10_Required(kind) ==
    CASE kind = "DocumentBuilder" -> {"title", "link"}
      [] kind = "TargetBuilder" -> {"source", "selector"}
      [] OTHER -> {}

\* C10, as claimed: for each of the four builders and every subset of fields set
\* before build(), the empty one included, build() succeeds and every unset field
\* of the result equals its declared default.
C10_EveryBuildSucceeds ==
    [][BuildStep =>
        /\ "value" \in DOMAIN built'
        /\ \A f \in Unset : built'.value[f] = C10_DeclaredDefault(builder.kind, f)]_vars

\* C10, amended: InputAnnotationBuilder and SearchQueryBuilder build for every
\* subset of fields set, the empty one included; DocumentBuilder builds exactly
\* when title and link were set and TargetBuilder exactly when source and selector
\* were set, and otherwise build() reports the first such field as uninitialized;
\* every unset field of a value built equals its declared default.
C10_BuildSucceedsUnlessRequiredFieldUnset ==
    [][BuildStep =>
        /\ "value" \in DOMAIN built' <=> Unset \cap C10_Required(builder.kind) = {}
        /\ "value" \in DOMAIN built' =>
            \A f \in Unset : built'.value[f] = C10_DeclaredDefault(builder.kind, f)
        /\ "value" \notin DOMAIN built' =>
            /\ built'.error[1] = "UninitializedField"
            /\ built'.error[2] \in Unset \cap C10_Required(builder.kind)]_vars

C10_Witness ==
    /\ builder.kind = "DocumentBuilder"
    /\ nset = 2
    /\ builder.fields.title # None
    /\ builder.fields.link # None
    /\ "value" \in DOMAIN built
    /\ built.value.dc = None
    /\ built.value.highwire = None

\* The result of the build() call just made: no setter was called since.
JustBuilt(kind) == builder.kind = kind /\ builds # <<>>
Returned_value == builds[Len(builds)].value

\* The fields of the builder no setter call was made for.
NeverSet == {f \in DOMAIN last : last[f] = None}

\* C11: a SearchQuery built by SearchQueryBuilder with no setter called for limit,
\* sort, order or offset has limit = 20, sort = Updated, order = Desc and
\* offset = 0, whatever other fields were set.
C11_PagingDefaults ==
    JustBuilt("SearchQueryBuilder") =>
        /\ builds[Len(builds)].ok
        /\ "limit" \in NeverSet => Returned_value.limit = 20
        /\ "sort" \in NeverSet => Returned_value.sort = "Updated"
        /\ "order" \in NeverSet => Returned_value.order = "Desc"
        /\ "offset" \in NeverSet => Returned_value.offset = 0

C11_Witness ==
    /\ JustBuilt("SearchQueryBuilder")
    /\ nset = 2
    /\ last.user # None
    /\ last.tags # None
    /\ {"limit", "sort", "order", "offset"} \subseteq NeverSet
    /\ Returned_value.limit = 20
    /\ Returned_value.sort = "Updated"

\* The value a field holds after a setter call with `arg`: strip_option setters
\* take T for a field of type Option<T>.
C12_Given(kind, f, arg) ==
    IF \/ kind = "InputAnnotationBuilder" /\ f \in {"tags", "document"}
       \/ kind = "DocumentBuilder" /\ f \in {"dc", "highwire"}
    THEN Some(arg)
    ELSE arg

\* C12: for every builder and every sequence of setter calls, the value build()
\* returns has each field equal to the value of the last setter call made for that
\* field, and to the default when no setter was called for it; so the result
\* depends neither on the order of calls to different fields nor on a call being
\* repeated with the same value.
C12_LastWriteWins ==
    (builds # <<>> /\ builds[Len(builds)].ok) =>
        \A f \in DOMAIN last :
            Returned_value[f] =
                IF f \in NeverSet THEN C10_DeclaredDefault(builder.kind, f)
                ELSE C12_Given(builder.kind, f, Unwrap(last[f]))

\* text was set to "string" and then to the empty string, tags were set once.
C12_Witness ==
    /\ JustBuilt("InputAnnotationBuilder")
    /\ nset = 3
    /\ Cardinality(NeverSet) = Len(InputAnnotation_fields) - 2
    /\ last.text = Some(<<>>)
    /\ last.tags = Some(<< <<"tag1">>, <<"tag2">> >>)
    /\ Returned_value.text = <<>>
    /\ Returned_value.tags = Some(<< <<"tag1">>, <<"tag2">> >>)

\* A step that is a call of build(), and one that is a call of a setter.
BuildCall == builds' # builds /\ builds' # <<>>
SetterCall == nset' = nset + 1

\* C17: build() leaves the builder's accumulated fields unchanged: two consecutive
\* build() calls return equal results, and a setter call made after a build()
\* leaves the value already returned as it is.
C17_BuildLeavesBuilderUnchanged ==
    [][/\ BuildCall =>
            /\ builder' = builder
            /\ last' = last
            /\ builds # <<>> => built' = built /\ builds'[Len(builds')] = builds[Len(builds)]
       /\ SetterCall => built' = built]_vars

\* Two build() calls in a row on a TargetBuilder with both fields set.
C17_Witness ==
    /\ builder.kind = "TargetBuilder"
    /\ nset = 2
    /\ NeverSet = {}
    /\ Len(builds) = 2
    /\ builds[1] = builds[2]
    /\ builds[2].ok

(***************************************************************************)
(* Properties of the Selector encoding.                                    *)
(***************************************************************************)
\* Selector's derived PartialEq: the same variant with equal contents; two bags
\* are equal when they hold the same value under the same keys.
C13_Equal(a, b) ==
    /\ a.variant = b.variant
    /\ IF a.variant = "RangeSelector"
       THEN ToHashMap(JObject(a.bag)) = ToHashMap(JObject(b.bag))
       ELSE a = b

\* C13, as claimed: for every Selector of each of the three variants, encoding it
\* to JSON and decoding the result succeeds and yields a value equal to the
\* original, of the same variant; for RangeSelector this holds for every
\* string-keyed bag, one with a key named "type" included.
C13_SelectorRoundTrips ==
    pc = "decoded" => result.ok /\ C13_Equal(result.value, input.selector)

\* The same, for the bags that have no key named "type".
C13_RoundTripsWithoutTypeKey ==
    (pc = "decoded" /\ ~(input.selector.variant = "RangeSelector"
                          /\ "type" \in Keys(input.selector.bag))) =>
        result.ok /\ C13_Equal(result.value, input.selector)

(***************************************************************************)
(* Properties of the use of the HTTP client.                               *)
(***************************************************************************)
\* C14: every invocation of one of the eight operations makes one call to the HTTP
\* client and never a second one: when the call fails, or the response body fails
\* to decode, the operation returns the failure without sending another request.
C14_OneHttpCallPerInvocation ==
    /\ pc = "idle" => http_calls = 0
    /\ pc \in {"awaiting", "returned"} =>
            /\ op \in {"create_annotation", "update_annotation", "search_annotations",
                        "fetch_annotation", "delete_annotation", "flag_annotation",
                        "hide_annotation", "show_annotation"}
            /\ http_calls = 1

\* search_annotations returned the failure of its one request.
C14_Witness ==
    /\ pc = "returned"
    /\ op = "search_annotations"
    /\ result = TransportError
    /\ body = NoBody
    /\ http_calls = 1

(***************************************************************************)
(* Properties of the search parameters.                                    *)
(***************************************************************************)
\* The elements of a list joined by a delimiter.
RECURSIVE C15_Join(_, _)
C15_Join(ss, d) ==
    IF Len(ss) = 1 THEN ss[1] ELSE ss[1] \o <<d>> \o C15_Join(Tail(ss), d)

C15_Delimiters == {",", " ", ";", "|", "+"}

\* C15, as claimed: when the SearchQuery has a non-empty tags list,
\* search_annotations sends either one tags parameter per element, or one tags
\* parameter whose value is the elements joined by a delimiter, with no JSON array
\* brackets in the value.
C15_TagsRepeatedOrDelimited ==
    (Sending({"search_annotations"}) /\ input.query.tags # <<>>) =>
        LET sent == {p[2] : p \in {q \in SentParams : q[1] = "tags"}}
        IN  /\ \A v \in sent : "[" \notin Range(v) /\ "]" \notin Range(v)
            /\ \/ sent = Range(input.query.tags)
               \/ \E d \in C15_Delimiters : sent = {C15_Join(input.query.tags, d)}

\* What is sent: one tags parameter, the compact JSON array without its quotes.
C15_TagsSentAsBracketedList ==
    (Sending({"search_annotations"}) /\ input.query.tags # <<>>) =>
        {p[2] : p \in {q \in SentParams : q[1] = "tags"}}
            = {<<"[">> \o C15_Join(input.query.tags, ",") \o <<"]">>}

\* C16, as claimed: every limit parameter search_annotations sends is within the
\* range 0..200, as is the limit of every SearchQuery that
\* SearchQueryBuilder::build() returns.
C16_LimitWithinRange ==
    /\ Sending({"search_annotations"}) =>
            /\ input.query.limit \in 0..200
            /\ \A p \in SentParams :
                    p[1] = "limit" => \E n \in 0..200 : p[2] = ToDecimal(n)
    /\ JustBuilt("SearchQueryBuilder") => Returned_value.limit \in 0..200

====
